---- MODULE Spec2Model ----
(***************************************************************************)
(* Authentication / session lifecycle and role authorization of the        *)
(* PhotoShare API: accounts, JWT access and refresh tokens, the Redis      *)
(* token blacklist, login / refresh / logout, ban / unban, and the photo,  *)
(* comment, rating and search operations that build on them.               *)
(*                                                                         *)
(* Time is counted in ticks, TicksPerSecond ticks to the second, so that   *)
(* the places where the code rounds to whole seconds are visible.          *)
(***************************************************************************)
EXTENDS Integers, Sequences, FiniteSets, TLC

VARIABLES
    users,       \* the users table, in insertion order; the id is the index
    blacklist,   \* the Redis keys "blacklist:<token>" with their expiry instant
    now,         \* the wall clock, in ticks
    issued,      \* the tokens the server has signed so far
    logged_out,  \* the unexpired tokens for which POST /auth/logout has answered 204
    reqs,        \* the signup requests in flight (interleaved runs only)
    last,        \* the response to the most recent call
    photos,      \* the photos table, in insertion order; the id is the index
    comments,    \* the comments table, likewise
    ratings,     \* the ratings table, likewise
    minted_for   \* history, kept in the provenance runs: the account each login
                 \* handed its tokens to

vars == <<users, blacklist, now, issued, logged_out, reqs, last, photos, comments, ratings,
          minted_for>>

-----------------------------------------------------------------------------
(* Inputs and bounds *)

Emails == {"e1", "e2", "e3"}
Usernames == {"n1", "n2", "n3"}
Passwords == {"p1", "p2"}
None == "None"

\* The request bodies of POST /auth/signup
UserCreate == [username : Usernames, email : Emails, password : Passwords]

\* The two people who sign up in the session runs
Applicants ==
    { [username |-> "n1", email |-> "e1", password |-> "p1"],
      [username |-> "n2", email |-> "e2", password |-> "p2"] }

TicksPerSecond == 2
Window == 1
MaxTokens == 2
MaxLogouts == 1
NumReqs == 2

ACCESS_TOKEN_EXPIRE_MINUTES == 30
REFRESH_TOKEN_EXPIRE_DAYS == 7

AccessLifeSeconds == ACCESS_TOKEN_EXPIRE_MINUTES * 60
RefreshLifeSeconds == REFRESH_TOKEN_EXPIRE_DAYS * 24 * 60 * 60

\* The instants at which the clock is observed: start-up, and the ticks around
\* the second in which the access tokens minted at start-up expire
Instants ==
    {0} \cup ((AccessLifeSeconds * TicksPerSecond - Window)
                .. ((AccessLifeSeconds + 1) * TicksPerSecond - 1 + Window))

\* floor of an instant to whole seconds: timegm(utctimetuple())
Seconds(t) == t \div TicksPerSecond

\* Python's int() of a duration given in ticks: truncation toward zero
IntSeconds(d) == IF d >= 0 THEN d \div TicksPerSecond ELSE 0 - ((0 - d) \div TicksPerSecond)

-----------------------------------------------------------------------------
(* Tokens: src/auth/utils.py *)

NoExp == -1
SECRET_KEY == "secret"

\* A signed JWT is determined by its claims and the key that signed it
Jwt(sub, exp, key) == [form |-> "jwt", key |-> key, sub |-> sub, exp |-> exp]

\* "invalid_garbage_token": not three base64 segments
Garbage == [form |-> "garbage", key |-> None, sub |-> None, exp |-> NoExp]

\* jose.jwt.decode(token, SECRET_KEY, algorithms=[ALGORITHM]) does not raise
\* JWTError: well-formed, signature verifies, and exp (when present) is not
\* before the current whole second
JwtAccepted(token, t) ==
    /\ token.form = "jwt"
    /\ token.key = SECRET_KEY
    /\ (token.exp # NoExp => ~(token.exp < Seconds(t)))

\* timedelta(seconds=...) in the place of timedelta(minutes=...)
create_access_token_MinutesAsSeconds(sub, t) ==
    Jwt(sub, Seconds(t) + ACCESS_TOKEN_EXPIRE_MINUTES, SECRET_KEY)

create_access_token(sub, t) == Jwt(sub, Seconds(t) + AccessLifeSeconds, SECRET_KEY)

create_refresh_token(sub, t) == Jwt(sub, Seconds(t) + RefreshLifeSeconds, SECRET_KEY)

\* jose.jwt.decode: the payload, or JWTError raised
jwt_decode(token, t) ==
    IF JwtAccepted(token, t)
    THEN [raised |-> None, sub |-> token.sub]
    ELSE [raised |-> "JWTError", sub |-> None]

\* what the caller gets when an exception escapes the function
Unhandled == "Internal Server Error"

\* the function without its except clause
decode_token_NoExcept(token, t) ==
    LET payload == jwt_decode(token, t) IN
    IF payload.raised # None THEN Unhandled
    ELSE IF payload.sub = None THEN None
    ELSE payload.sub

\* the email of TokenData, or None
decode_token(token, t) ==
    LET payload == jwt_decode(token, t) IN
    IF payload.raised = "JWTError" THEN None
    ELSE IF payload.sub = None THEN None
    ELSE payload.sub

-----------------------------------------------------------------------------
(* The token blacklist: src/auth/token_blacklist.py *)

\* redis SET name value EX ttl, at instant t
redis_set(store, token, ttl, t) ==
    {e \in store : e.token # token}
        \cup {[token |-> token, expire_at |-> t + ttl * TicksPerSecond]}

\* redis EXISTS name, at instant t: a key is gone once the clock is past its expiry
redis_exists(store, token, t) ==
    \E e \in store : e.token = token /\ ~(t > e.expire_at)

\* Redis drops the keys whose expiry has passed
redis_expire(store, t) == {e \in store : ~(t > e.expire_at)}

TtlAdmitted_ZeroIncluded(ttl) == ttl >= 0

TtlAdmitted(ttl) == ttl > 0

add_token_to_blacklist(store, token, t) ==
    IF ~JwtAccepted(token, t) THEN store
    ELSE IF token.exp = NoExp THEN store
    ELSE LET ttl == IntSeconds(token.exp * TicksPerSecond - t)
         IN  IF TtlAdmitted(ttl) THEN redis_set(store, token, ttl, t) ELSE store

is_token_blacklisted(store, token, t) == redis_exists(store, token, t)

-----------------------------------------------------------------------------
(* Passwords: src/auth/security.py *)

get_password_hash(password) == <<"bcrypt", password>>

verify_password(plain_password, hashed_password) ==
    hashed_password = <<"bcrypt", plain_password>>

-----------------------------------------------------------------------------
(* The users table: src/users/repository.py *)

Ids(table) == 1 .. Len(table)

count_users(table) == Len(table)

\* the id of the row, or 0 for None
get_user_by_email(table, email) ==
    IF \E i \in Ids(table) : table[i].email = email
    THEN CHOOSE i \in Ids(table) : table[i].email = email
    ELSE 0

get_user_by_username(table, username) ==
    IF \E i \in Ids(table) : table[i].username = username
    THEN CHOOSE i \in Ids(table) : table[i].username = username
    ELSE 0

RoleForCount_CountOffByOne(users_count) == IF users_count <= 1 THEN "admin" ELSE "user"

RoleForCount(users_count) == IF users_count = 0 THEN "admin" ELSE "user"

NewUser(data, users_count) ==
    [ username        |-> data.username,
      email           |-> data.email,
      hashed_password |-> get_password_hash(data.password),
      role            |-> RoleForCount(users_count),
      is_active       |-> TRUE ]

\* the unique constraints of users.username and users.email
UniqueOk(table, data) ==
    /\ get_user_by_email(table, data.email) = 0
    /\ get_user_by_username(table, data.username) = 0

toggle_user_active_status_WholeTable(table, id, is_active) ==
    [i \in DOMAIN table |-> [table[i] EXCEPT !.is_active = is_active]]

toggle_user_active_status(table, id, is_active) ==
    [table EXCEPT ![id].is_active = is_active]

-----------------------------------------------------------------------------
(* Responses *)

Resp(op, status, detail, token, user, name, password, minted) ==
    [ op |-> op, status |-> status, detail |-> detail, token |-> token,
      user |-> user, name |-> name, password |-> password, minted |-> minted ]

CREDENTIALS == "Could not validate credentials"
REVOKED == "Token has been revoked"
INCORRECT == "Incorrect username or password"
DEACTIVATED == "User account is deactivated"
FORBIDDEN == "You do not have permission to perform this action"
OWN_STATUS == "Cannot change your own account status"


NoToken == [form |-> "none", key |-> None, sub |-> None, exp |-> NoExp]

-----------------------------------------------------------------------------
(* Authentication and authorization: src/auth/dependencies.py *)

AuthResult(status, detail, user) == [status |-> status, detail |-> detail, user |-> user]

get_current_user_AccountFirst(token, t) ==
    LET email == decode_token(token, t) IN
    IF email = None THEN AuthResult(401, CREDENTIALS, 0)
    ELSE LET user == get_user_by_email(users, email) IN
         IF user = 0 THEN AuthResult(401, CREDENTIALS, 0)
         ELSE IF is_token_blacklisted(blacklist, token, t) THEN AuthResult(401, REVOKED, 0)
         ELSE AuthResult(200, "", user)

get_current_user_ActiveOnly(token, t) ==
    LET email == decode_token(token, t) IN
    IF email = None THEN AuthResult(401, CREDENTIALS, 0)
    ELSE IF is_token_blacklisted(blacklist, token, t) THEN AuthResult(401, REVOKED, 0)
    ELSE LET user == get_user_by_email(users, email) IN
         IF user = 0 THEN AuthResult(401, CREDENTIALS, 0)
         ELSE IF ~users[user].is_active THEN AuthResult(403, DEACTIVATED, 0)
         ELSE AuthResult(200, "", user)

\* get_current_user at instant t: the account's id with status 200, or the
\* HTTPException raised
get_current_user(token, t) ==
    LET email == decode_token(token, t) IN
    IF email = None THEN AuthResult(401, CREDENTIALS, 0)
    ELSE IF is_token_blacklisted(blacklist, token, t) THEN AuthResult(401, REVOKED, 0)
    ELSE LET user == get_user_by_email(users, email) IN
         IF user = 0 THEN AuthResult(401, CREDENTIALS, 0)
         ELSE AuthResult(200, "", user)

RoleChecker_StaffPasses(allowed_roles, token, t) ==
    LET auth == get_current_user(token, t) IN
    IF auth.status # 200 THEN auth
    ELSE IF users[auth.user].role \notin allowed_roles \cup {"moderator"}
    THEN AuthResult(403, FORBIDDEN, 0)
    ELSE auth

\* RoleChecker(allowed_roles).__call__ on top of get_current_user
RoleChecker(allowed_roles, token, t) ==
    LET auth == get_current_user(token, t) IN
    IF auth.status # 200 THEN auth
    ELSE IF users[auth.user].role \notin allowed_roles THEN AuthResult(403, FORBIDDEN, 0)
    ELSE auth

-----------------------------------------------------------------------------
(* Initial state *)

Idle == [pc |-> "idle", data |-> [username |-> None, email |-> None, password |-> None],
         users_count |-> 0]

NoCall == Resp("none", 0, "", NoToken, 0, None, None, {})

Init ==
    /\ users = <<>>
    /\ blacklist = {}
    /\ now = 0
    /\ issued = {}
    /\ logged_out = {}
    /\ reqs = [r \in 1 .. NumReqs |-> Idle]
    /\ last = NoCall
    /\ photos = <<>>
    /\ comments = <<>>
    /\ ratings = <<>>
    /\ minted_for = {}

-----------------------------------------------------------------------------
(* POST /auth/signup, handled without interruption: src/auth/routes.py *)

Signup_UsernameFirst(data) ==
    /\ IF get_user_by_username(users, data.username) # 0
       THEN /\ last' = Resp("signup", 409, "User with this username already exists",
                            NoToken, 0, data.email, data.password, {})
            /\ users' = users
       ELSE IF get_user_by_email(users, data.email) # 0
       THEN /\ last' = Resp("signup", 409, "User with this email already exists",
                            NoToken, 0, data.email, data.password, {})
            /\ users' = users
       ELSE /\ users' = Append(users, NewUser(data, count_users(users)))
            /\ last' = Resp("signup", 201, "", NoToken, Len(users) + 1,
                            data.email, data.password, {})
    /\ UNCHANGED <<blacklist, now, issued, logged_out, reqs, photos, comments, ratings, minted_for>>

Signup(data) ==
    /\ IF get_user_by_email(users, data.email) # 0
       THEN /\ last' = Resp("signup", 409, "User with this email already exists",
                            NoToken, 0, data.email, data.password, {})
            /\ users' = users
       ELSE IF get_user_by_username(users, data.username) # 0
       THEN /\ last' = Resp("signup", 409, "User with this username already exists",
                            NoToken, 0, data.email, data.password, {})
            /\ users' = users
       ELSE /\ users' = Append(users, NewUser(data, count_users(users)))
            /\ last' = Resp("signup", 201, "", NoToken, Len(users) + 1,
                            data.email, data.password, {})
    /\ UNCHANGED <<blacklist, now, issued, logged_out, reqs, photos, comments, ratings, minted_for>>

\* the bound of the model on the tokens minted: MaxTokens to an account
WithinTokenBound(tokens) ==
    \A e \in Emails : Cardinality({token \in tokens : token.sub = e}) <= MaxTokens

(* POST /auth/login *)

LoginOutcome_TellsUnknownEmail(email, password, t) ==
    LET user == get_user_by_email(users, email) IN
    IF user = 0
    THEN Resp("login", 401, "User not found", NoToken, 0, email, password, {})
    ELSE IF ~verify_password(password, users[user].hashed_password)
    THEN Resp("login", 401, INCORRECT, NoToken, 0, email, password, {})
    ELSE IF ~users[user].is_active
    THEN Resp("login", 403, DEACTIVATED, NoToken, user, email, password, {})
    ELSE Resp("login", 200, "", NoToken, user, email, password,
              { create_access_token(users[user].email, t),
                create_refresh_token(users[user].email, t) })

LoginOutcome_NoActiveCheck(email, password, t) ==
    LET user == get_user_by_email(users, email) IN
    IF user = 0 \/ ~verify_password(password, users[user].hashed_password)
    THEN Resp("login", 401, INCORRECT, NoToken, 0, email, password, {})
    ELSE Resp("login", 200, "", NoToken, user, email, password,
              { create_access_token(users[user].email, t),
                create_refresh_token(users[user].email, t) })

LoginOutcome_ActiveFirst(email, password, t) ==
    LET user == get_user_by_email(users, email) IN
    IF user = 0
    THEN Resp("login", 401, INCORRECT, NoToken, 0, email, password, {})
    ELSE IF ~users[user].is_active
    THEN Resp("login", 403, DEACTIVATED, NoToken, user, email, password, {})
    ELSE IF ~verify_password(password, users[user].hashed_password)
    THEN Resp("login", 401, INCORRECT, NoToken, 0, email, password, {})
    ELSE Resp("login", 200, "", NoToken, user, email, password,
              { create_access_token(users[user].email, t),
                create_refresh_token(users[user].email, t) })

LoginOutcome(email, password, t) ==
    LET user == get_user_by_email(users, email) IN
    IF user = 0 \/ ~verify_password(password, users[user].hashed_password)
    THEN Resp("login", 401, INCORRECT, NoToken, 0, email, password, {})
    ELSE IF ~users[user].is_active
    THEN Resp("login", 403, DEACTIVATED, NoToken, user, email, password, {})
    ELSE Resp("login", 200, "", NoToken, user, email, password,
              { create_access_token(users[user].email, t),
                create_refresh_token(users[user].email, t) })

\* the handler: the answer, and the tokens it has signed
login(email, password) ==
    LET out == LoginOutcome(email, password, now) IN
    /\ WithinTokenBound(issued \cup out.minted)
    /\ last' = out
    /\ issued' = issued \cup out.minted
    /\ UNCHANGED <<users, blacklist, now, logged_out, reqs, photos, comments, ratings>>

Login(email, password) == login(email, password) /\ UNCHANGED minted_for

\* a login of the provenance runs: the history notes whom the tokens went to
LoginNoted(email, password) ==
    /\ login(email, password)
    /\ minted_for' = minted_for \cup {[token |-> k, user |-> last'.user] : k \in last'.minted}

(* POST /auth/refresh *)

RefreshOutcome_NoActiveCheck(token, t) ==
    LET email == decode_token(token, t) IN
    IF email = None
    THEN Resp("refresh", 401, CREDENTIALS, token, 0, None, None, {})
    ELSE LET user == get_user_by_email(users, email) IN
         IF user = 0
         THEN Resp("refresh", 401, "User not found", token, 0, None, None, {})
         ELSE Resp("refresh", 200, "", token, user, None, None,
                   { create_access_token(users[user].email, t),
                     create_refresh_token(users[user].email, t) })

\* rotation that accepts only the newest token signed for the subject
RefreshOutcome_OnlyLatest(token, t) ==
    LET email == decode_token(token, t) IN
    IF email = None
    THEN Resp("refresh", 401, CREDENTIALS, token, 0, None, None, {})
    ELSE IF \E newer \in issued : newer.sub = token.sub /\ newer.exp > token.exp
    THEN Resp("refresh", 401, CREDENTIALS, token, 0, None, None, {})
    ELSE LET user == get_user_by_email(users, email) IN
         IF user = 0
         THEN Resp("refresh", 401, "User not found", token, 0, None, None, {})
         ELSE IF ~users[user].is_active
         THEN Resp("refresh", 403, DEACTIVATED, token, user, None, None, {})
         ELSE Resp("refresh", 200, "", token, user, None, None,
                   { create_access_token(users[user].email, t),
                     create_refresh_token(users[user].email, t) })

RefreshOutcome(token, t) ==
    LET email == decode_token(token, t) IN
    IF email = None
    THEN Resp("refresh", 401, CREDENTIALS, token, 0, None, None, {})
    ELSE LET user == get_user_by_email(users, email) IN
         IF user = 0
         THEN Resp("refresh", 401, "User not found", token, 0, None, None, {})
         ELSE IF ~users[user].is_active
         THEN Resp("refresh", 403, DEACTIVATED, token, user, None, None, {})
         ELSE Resp("refresh", 200, "", token, user, None, None,
                   { create_access_token(users[user].email, t),
                     create_refresh_token(users[user].email, t) })

\* the handler: the answer, and the tokens it has signed
refresh_tokens(token) ==
    LET out == RefreshOutcome(token, now) IN
    /\ last' = out
    /\ issued' = issued \cup out.minted
    /\ UNCHANGED <<users, blacklist, now, logged_out, reqs, photos, comments, ratings,
                   minted_for>>

Refresh(token) ==
    /\ WithinTokenBound(issued \cup RefreshOutcome(token, now).minted)
    /\ refresh_tokens(token)

(* POST /auth/logout *)

Logout(token) ==
    LET auth == get_current_user(token, now) IN
    /\ IF auth.status # 200
       THEN /\ last' = Resp("logout", auth.status, auth.detail, token, 0, None, None, {})
            /\ UNCHANGED <<blacklist, logged_out>>
       ELSE /\ Cardinality(logged_out \cup {token}) <= MaxLogouts
            /\ blacklist' = add_token_to_blacklist(blacklist, token, now)
            /\ logged_out' = logged_out \cup {token}
            /\ last' = Resp("logout", 204, "", token, auth.user, None, None, {})
    /\ UNCHANGED <<users, now, issued, reqs, photos, comments, ratings, minted_for>>


(* GET /users/me: an endpoint guarded by get_current_user and nothing else,
   src/users/routes.py *)

GetMyProfile_RevokesOnUse(token) ==
    LET auth == get_current_user(token, now) IN
    /\ last' = Resp("get_my_profile", auth.status, auth.detail, token, auth.user,
                    None, None, {})
    /\ blacklist' = IF auth.status = 200
                    THEN add_token_to_blacklist(blacklist, token, now)
                    ELSE blacklist
    /\ UNCHANGED <<users, now, issued, logged_out, reqs, photos, comments, ratings, minted_for>>

GetMyProfile(token) ==
    LET auth == get_current_user(token, now) IN
    /\ last' = Resp("get_my_profile", auth.status, auth.detail, token, auth.user,
                    None, None, {})
    /\ UNCHANGED <<users, blacklist, now, issued, logged_out, reqs, photos, comments, ratings,
                 minted_for>>

(* PUT /users/me; a field that is None in `update` is unset in the request *)

update_user(table, id, update) ==
    [table EXCEPT
        ![id].username = IF update.username # None THEN update.username ELSE @,
        ![id].email    = IF update.email # None THEN update.email ELSE @]

UpdateMyProfile(token, update) ==
    LET auth == get_current_user(token, now)
        me   == auth.user
    IN
    /\ IF auth.status # 200
       THEN /\ last' = Resp("update_my_profile", auth.status, auth.detail, token, 0,
                            None, None, {})
            /\ users' = users
       ELSE IF update.username = None /\ update.email = None
       THEN /\ last' = Resp("update_my_profile", 200, "", token, me, None, None, {})
            /\ users' = users
       ELSE IF /\ update.username # None
               /\ update.username # users[me].username
               /\ get_user_by_username(users, update.username) # 0
       THEN /\ last' = Resp("update_my_profile", 409,
                            "User with this username already exists", token, me,
                            None, None, {})
            /\ users' = users
       ELSE IF /\ update.email # None
               /\ update.email # users[me].email
               /\ get_user_by_email(users, update.email) # 0
       THEN /\ last' = Resp("update_my_profile", 409,
                            "User with this email already exists", token, me,
                            None, None, {})
            /\ users' = users
       ELSE /\ users' = update_user(users, me, update)
            /\ last' = Resp("update_my_profile", 200, "", token, me, None, None, {})
    /\ UNCHANGED <<blacklist, now, issued, logged_out, reqs, photos, comments, ratings, minted_for>>

(* PATCH /users/{username}/ban and /unban *)

SetStatus(op, token, username, is_active) ==
    LET admin == RoleChecker({"admin"}, token, now)
        user  == get_user_by_username(users, username)
    IN
    /\ IF admin.status # 200
       THEN /\ last' = Resp(op, admin.status, admin.detail, token, 0, username, None, {})
            /\ users' = users
       ELSE IF user = 0
       THEN /\ last' = Resp(op, 404, "User with username '{username}' not found",
                            token, 0, username, None, {})
            /\ users' = users
       ELSE IF user = admin.user
       THEN /\ last' = Resp(op, 400, OWN_STATUS, token, user, username, None, {})
            /\ users' = users
       ELSE /\ users' = toggle_user_active_status(users, user, is_active)
            /\ last' = Resp(op, 200, "", token, user, username, None, {})
    /\ UNCHANGED <<blacklist, now, issued, logged_out, reqs, photos, comments, ratings, minted_for>>

BanUser(token, username) == SetStatus("ban_user", token, username, FALSE)

UnbanUser(token, username) == SetStatus("unban_user", token, username, TRUE)

(* PUT /admin/users/{identifier}/activate and /deactivate:
   src/admin/routes.py *)

\* the decimal numerals of the ids
Numerals == <<"1", "2", "3">>

IsNumeral(identifier) == \E i \in DOMAIN Numerals : Numerals[i] = identifier

\* Python's int() of a path segment that is a numeral
IntOf(identifier) == CHOOSE i \in DOMAIN Numerals : Numerals[i] = identifier

get_user_by_id(table, user_id) == IF user_id \in Ids(table) THEN user_id ELSE 0

\* by id when int(identifier) does not raise ValueError, by username otherwise
get_user_by_identifier(table, identifier) ==
    IF IsNumeral(identifier)
    THEN get_user_by_id(table, IntOf(identifier))
    ELSE get_user_by_username(table, identifier)

\* the authenticated principal when its role is admin, 403 otherwise
get_current_admin_user(token, t) == RoleChecker({"admin"}, token, t)

SetStatusByIdentifier(op, token, identifier, is_active) ==
    LET admin == get_current_admin_user(token, now)
        user  == get_user_by_identifier(users, identifier)
    IN
    /\ IF admin.status # 200
       THEN /\ last' = Resp(op, admin.status, admin.detail, token, 0, identifier, None, {})
            /\ users' = users
       ELSE IF user = 0
       THEN /\ last' = Resp(op, 404,
                            IF IsNumeral(identifier)
                            THEN "User with ID {user_id} not found"
                            ELSE "User with username '{identifier}' not found",
                            token, 0, identifier, None, {})
            /\ users' = users
       ELSE IF user = admin.user
       THEN /\ last' = Resp(op, 400, OWN_STATUS, token, user, identifier, None, {})
            /\ users' = users
       ELSE /\ users' = toggle_user_active_status(users, user, is_active)
            /\ last' = Resp(op, 200, "", token, user, identifier, None, {})
    /\ UNCHANGED <<blacklist, now, issued, logged_out, reqs, photos, comments, ratings, minted_for>>

ActivateUser(token, identifier) ==
    SetStatusByIdentifier("activate_user", token, identifier, TRUE)

DeactivateUser(token, identifier) ==
    SetStatusByIdentifier("deactivate_user", token, identifier, FALSE)

(* Photos, comments and ratings: src/photos/routes.py, src/comments/routes.py,
   src/ratings/routes.py. A row that was deleted keeps its place in the
   table with live = FALSE, so that ids are never given twice. *)

MaxPhotos == 2
MaxComments == 1
MaxRatings == 3

STAFF == {"admin", "moderator"}

\* the id of the live row, or 0 for None
get_by_id(table, id) ==
    IF id \in 1 .. Len(table) /\ table[id].live THEN id ELSE 0

\* session.delete(row); commit
delete(table, id) == [table EXCEPT ![id].live = FALSE]

\* POST /photos/: file is the content type of the upload, stored says whether
\* CloudinaryService.upload_image returned
UploadPhoto(token, file, stored, description) ==
    LET auth == get_current_user(token, now) IN
    /\ Len(photos) < MaxPhotos
    /\ IF auth.status # 200
       THEN /\ last' = Resp("upload_photo", auth.status, auth.detail, token, 0,
                            None, None, {})
            /\ photos' = photos
       ELSE IF file # "image"
       THEN /\ last' = Resp("upload_photo", 400, "File must be an image", token,
                            auth.user, None, None, {})
            /\ photos' = photos
       ELSE IF ~stored
       THEN /\ last' = Resp("upload_photo", 500, "Failed to upload image: {str(e)}",
                            token, auth.user, None, None, {})
            /\ photos' = photos
       ELSE /\ photos' = Append(photos, [user_id |-> auth.user,
                                         description |-> description, live |-> TRUE])
            /\ last' = Resp("upload_photo", 201, "", token, auth.user,
                            Numerals[Len(photos) + 1], None, {})
    /\ UNCHANGED <<users, blacklist, now, issued, logged_out, reqs, comments, ratings, minted_for>>

\* POST /comments/{photo_id}: the row is inserted unless the foreign key
\* comments.photo_id refuses it, in which case IntegrityError escapes
CreateComment(token, photo_id, text) ==
    LET auth == get_current_user(token, now) IN
    /\ Len(comments) < MaxComments
    /\ IF auth.status # 200
       THEN /\ last' = Resp("create_comment", auth.status, auth.detail, token, 0,
                            Numerals[photo_id], None, {})
            /\ comments' = comments
       ELSE IF get_by_id(photos, photo_id) = 0
       THEN /\ last' = Resp("create_comment", 500, "IntegrityError", token, auth.user,
                            Numerals[photo_id], None, {})
            /\ comments' = comments
       ELSE /\ comments' = Append(comments, [user_id |-> auth.user, photo_id |-> photo_id,
                                             text |-> text, live |-> TRUE])
            /\ last' = Resp("create_comment", 201, "", token, auth.user,
                            Numerals[photo_id], None, {})
    /\ UNCHANGED <<users, blacklist, now, issued, logged_out, reqs, photos, ratings, minted_for>>

OWN_COMMENTS == "You can only edit your own comments"

may_edit_comment_AuthorOrAdmin(comment, current_user) ==
    comment.user_id = current_user \/ users[current_user].role = "admin"

may_edit_comment(comment, current_user) == ~(comment.user_id # current_user)

\* PUT /comments/{comment_id}
UpdateComment(token, comment_id, text) ==
    LET auth == get_current_user(token, now)
        comment == get_by_id(comments, comment_id)
    IN
    /\ IF auth.status # 200
       THEN /\ last' = Resp("update_comment", auth.status, auth.detail, token, 0,
                            Numerals[comment_id], None, {})
            /\ comments' = comments
       ELSE IF comment = 0
       THEN /\ last' = Resp("update_comment", 404, "Comment not found", token,
                            auth.user, Numerals[comment_id], None, {})
            /\ comments' = comments
       ELSE IF ~may_edit_comment(comments[comment], auth.user)
       THEN /\ last' = Resp("update_comment", 403, OWN_COMMENTS, token, auth.user,
                            Numerals[comment_id], None, {})
            /\ comments' = comments
       ELSE /\ comments' = [comments EXCEPT ![comment].text = text]
            /\ last' = Resp("update_comment", 200, "", token, auth.user,
                            Numerals[comment_id], None, {})
    /\ UNCHANGED <<users, blacklist, now, issued, logged_out, reqs, photos, ratings, minted_for>>

\* DELETE /comments/{comment_id}
DeleteComment(token, comment_id) ==
    LET current_user == RoleChecker(STAFF, token, now)
        comment == get_by_id(comments, comment_id)
    IN
    /\ IF current_user.status # 200
       THEN /\ last' = Resp("delete_comment", current_user.status, current_user.detail,
                            token, 0, Numerals[comment_id], None, {})
            /\ comments' = comments
       ELSE IF comment = 0
       THEN /\ last' = Resp("delete_comment", 404, "Comment not found", token,
                            current_user.user, Numerals[comment_id], None, {})
            /\ comments' = comments
       ELSE /\ comments' = delete(comments, comment)
            /\ last' = Resp("delete_comment", 204, "", token, current_user.user,
                            Numerals[comment_id], None, {})
    /\ UNCHANGED <<users, blacklist, now, issued, logged_out, reqs, photos, ratings, minted_for>>

(* GET, PUT and DELETE /photos/{photo_id}: src/photos/routes.py *)

NOT_ENOUGH == "Not enough permissions"

GetPhoto(photo_id) ==
    LET photo == get_by_id(photos, photo_id) IN
    /\ last' = IF photo = 0
               THEN Resp("get_photo", 404, "Photo not found", Garbage, 0,
                         Numerals[photo_id], None, {})
               ELSE Resp("get_photo", 200, photos[photo].description, Garbage, 0,
                         Numerals[photo_id], None, {})
    /\ UNCHANGED <<users, blacklist, now, issued, logged_out, reqs, photos, comments, ratings,
                 minted_for>>

\* the test of both handlers: the owner and an admin pass
may_change_photo_OwnerOrStaff(photo, current_user) ==
    photo.user_id = current_user \/ users[current_user].role \in STAFF

may_change_photo(photo, current_user) ==
    ~(photo.user_id # current_user /\ users[current_user].role # "admin")

\* PhotoRepository.update: a description of None leaves the stored one
UpdatePhoto(token, photo_id, description) ==
    LET auth == get_current_user(token, now)
        photo == get_by_id(photos, photo_id)
    IN
    /\ IF auth.status # 200
       THEN /\ last' = Resp("update_photo", auth.status, auth.detail, token, 0,
                            Numerals[photo_id], None, {})
            /\ photos' = photos
       ELSE IF photo = 0
       THEN /\ last' = Resp("update_photo", 404, "Photo not found", token, auth.user,
                            Numerals[photo_id], None, {})
            /\ photos' = photos
       ELSE IF ~may_change_photo(photos[photo], auth.user)
       THEN /\ last' = Resp("update_photo", 403, NOT_ENOUGH, token, auth.user,
                            Numerals[photo_id], None, {})
            /\ photos' = photos
       ELSE /\ photos' = IF description # None
                         THEN [photos EXCEPT ![photo].description = description]
                         ELSE photos
            /\ last' = Resp("update_photo", 200, "", token, auth.user,
                            Numerals[photo_id], None, {})
    /\ UNCHANGED <<users, blacklist, now, issued, logged_out, reqs, comments, ratings, minted_for>>

\* session.delete(photo) with the cascade "all, delete-orphan" of Photo.comments
\* and Photo.ratings
delete_children(table, photo_id) ==
    [r \in DOMAIN table |->
        IF table[r].photo_id = photo_id THEN [table[r] EXCEPT !.live = FALSE]
        ELSE table[r]]

\* removed says whether CloudinaryService.delete_image returned; the handler
\* swallows its exception
DeletePhoto(token, photo_id, removed) ==
    LET auth == get_current_user(token, now)
        photo == get_by_id(photos, photo_id)
    IN
    /\ IF auth.status # 200
       THEN /\ last' = Resp("delete_photo", auth.status, auth.detail, token, 0,
                            Numerals[photo_id], None, {})
            /\ UNCHANGED <<photos, comments, ratings>>
       ELSE IF photo = 0
       THEN /\ last' = Resp("delete_photo", 404, "Photo not found", token, auth.user,
                            Numerals[photo_id], None, {})
            /\ UNCHANGED <<photos, comments, ratings>>
       ELSE IF ~may_change_photo(photos[photo], auth.user)
       THEN /\ last' = Resp("delete_photo", 403, NOT_ENOUGH, token, auth.user,
                            Numerals[photo_id], None, {})
            /\ UNCHANGED <<photos, comments, ratings>>
       ELSE /\ photos' = delete(photos, photo)
            /\ comments' = delete_children(comments, photo)
            /\ ratings' = delete_children(ratings, photo)
            /\ last' = Resp("delete_photo", 204, "", token, auth.user,
                            Numerals[photo_id], IF removed THEN None ELSE "Cloudinary fail",
                            {})
    /\ UNCHANGED <<users, blacklist, now, issued, logged_out, reqs, minted_for>>

(* POST /ratings/{photo_id}: src/ratings/routes.py *)

\* the scores RatingCreate lets through that the runs use
Scores == {1, 5}

\* UniqueConstraint("user_id", "photo_id") of the ratings table
unique_user_photo_rating(table, user_id, photo_id) ==
    \A r \in DOMAIN table :
        table[r].live => ~(table[r].user_id = user_id /\ table[r].photo_id = photo_id)

AddRating_NoOwnerCheck(token, photo_id, score) ==
    LET current_user == get_current_user(token, now)
        photo == get_by_id(photos, photo_id)
    IN
    /\ Len(ratings) < MaxRatings
    /\ IF current_user.status # 200
       THEN /\ last' = Resp("add_rating", current_user.status, current_user.detail, token,
                            0, Numerals[photo_id], None, {})
            /\ ratings' = ratings
       ELSE IF photo = 0
       THEN /\ last' = Resp("add_rating", 404, "Photo not found", token,
                            current_user.user, Numerals[photo_id], None, {})
            /\ ratings' = ratings
       ELSE IF ~unique_user_photo_rating(ratings, current_user.user, photo_id)
       THEN /\ last' = Resp("add_rating", 409, "You have already rated this photo", token,
                            current_user.user, Numerals[photo_id], None, {})
            /\ ratings' = ratings
       ELSE /\ ratings' = Append(ratings, [user_id |-> current_user.user,
                                           photo_id |-> photo_id, score |-> score,
                                           live |-> TRUE])
            /\ last' = Resp("add_rating", 201, "", token, current_user.user,
                            Numerals[photo_id], None, {})
    /\ UNCHANGED <<users, blacklist, now, issued, logged_out, reqs, photos, comments, minted_for>>

\* create_rating inserts the row unless the unique constraint refuses it, in
\* which case the handler catches IntegrityError and rolls back
AddRating(token, photo_id, score) ==
    LET current_user == get_current_user(token, now)
        photo == get_by_id(photos, photo_id)
    IN
    /\ Len(ratings) < MaxRatings
    /\ IF current_user.status # 200
       THEN /\ last' = Resp("add_rating", current_user.status, current_user.detail, token,
                            0, Numerals[photo_id], None, {})
            /\ ratings' = ratings
       ELSE IF photo = 0
       THEN /\ last' = Resp("add_rating", 404, "Photo not found", token,
                            current_user.user, Numerals[photo_id], None, {})
            /\ ratings' = ratings
       ELSE IF photos[photo].user_id = current_user.user
       THEN /\ last' = Resp("add_rating", 403, "You cannot rate your own photo", token,
                            current_user.user, Numerals[photo_id], None, {})
            /\ ratings' = ratings
       ELSE IF ~unique_user_photo_rating(ratings, current_user.user, photo_id)
       THEN /\ last' = Resp("add_rating", 409, "You have already rated this photo", token,
                            current_user.user, Numerals[photo_id], None, {})
            /\ ratings' = ratings
       ELSE /\ ratings' = Append(ratings, [user_id |-> current_user.user,
                                           photo_id |-> photo_id, score |-> score,
                                           live |-> TRUE])
            /\ last' = Resp("add_rating", 201, "", token, current_user.user,
                            Numerals[photo_id], None, {})
    /\ UNCHANGED <<users, blacklist, now, issued, logged_out, reqs, photos, comments, minted_for>>

(* PhotoRepository.search_advanced: src/photos/repository.py.  Photos are
   created one after the other, so the order of created_at is the order of
   the ids. *)

RECURSIVE SumScores(_, _)
SumScores(table, rows) ==
    IF rows = {} THEN 0
    ELSE LET r == CHOOSE x \in rows : TRUE
         IN  table[r].score + SumScores(table, rows \ {r})

\* the ratings Photo.ratings loads
RatingsOf(photo_id) ==
    {r \in DOMAIN ratings : ratings[r].live /\ ratings[r].photo_id = photo_id}

\* avg < bound and avg > bound for avg = Photo.average_rating, None counting
\* as 0, compared as fractions
AverageBelow(photo_id, bound) ==
    LET n == Cardinality(RatingsOf(photo_id)) IN
    IF n = 0 THEN 0 < bound ELSE SumScores(ratings, RatingsOf(photo_id)) < bound * n

AverageAbove(photo_id, bound) ==
    LET n == Cardinality(RatingsOf(photo_id)) IN
    IF n = 0 THEN 0 > bound ELSE SumScores(ratings, RatingsOf(photo_id)) > bound * n

\* an optional argument is <<>> for None and <<v>> for the value v
Absent == <<>>

RatingAdmits(photo_id, min_rating, max_rating) ==
    /\ ~(min_rating # Absent /\ AverageBelow(photo_id, min_rating[1]))
    /\ ~(max_rating # Absent /\ AverageAbove(photo_id, max_rating[1]))

Reverse(seq) == [i \in 1 .. Len(seq) |-> seq[Len(seq) + 1 - i]]

\* the ids the where clause selects, ordered by created_at
Selected(user_id, sort_order) ==
    LET Where(id) == photos[id].live /\ (user_id # Absent => photos[id].user_id = user_id[1])
        asc == SelectSeq([i \in 1 .. Len(photos) |-> i], Where)
    IN  IF sort_order = "desc" THEN Reverse(asc) ELSE asc

\* OFFSET skip LIMIT limit
Page(seq, skip, limit) ==
    SubSeq(seq, skip + 1, IF skip + limit < Len(seq) THEN skip + limit ELSE Len(seq))

\* the pair (photos, total) for sort_by = "created_at"
search_advanced(user_id, min_rating, max_rating, sort_order, skip, limit) ==
    LET selected == Selected(user_id, sort_order)
        page == Page(selected, skip, limit)
        Admitted(id) == RatingAdmits(id, min_rating, max_rating)
        filtered_photos == SelectSeq(page, Admitted)
    IN  IF min_rating # Absent \/ max_rating # Absent
        THEN <<filtered_photos, Len(filtered_photos)>>
        ELSE <<page, Len(selected)>>

SearchAdvanced(user_id, min_rating, max_rating, sort_order, skip, limit) ==
    /\ last' = Resp("search_advanced", 200,
                    search_advanced(user_id, min_rating, max_rating, sort_order,
                                    skip, limit),
                    NoToken, 0,
                    [user_id |-> user_id, min_rating |-> min_rating,
                     max_rating |-> max_rating, sort_order |-> sort_order,
                     skip |-> skip, limit |-> limit],
                    None, {})
    /\ UNCHANGED <<users, blacklist, now, issued, logged_out, reqs, photos, comments, ratings,
                 minted_for>>

(* The clock moves forward; Redis drops the keys that have expired. A response
   is an observation of the instant it was given at: it is forgotten when the
   clock moves. *)

AdvanceTime(t) ==
    /\ t > now
    /\ now' = t
    /\ blacklist' = redis_expire(blacklist, t)
    /\ logged_out' = {token \in logged_out : JwtAccepted(token, t)}
    /\ last' = NoCall
    /\ UNCHANGED <<users, issued, reqs, photos, comments, ratings, minted_for>>

-----------------------------------------------------------------------------
(* The session runs: one request at a time *)

\* what a client can put in the Authorization header: a token the server
\* gave out, or a string that is no JWT
Presented == issued \cup {Garbage}

\* the bodies of PUT /users/me in the session runs
Updates ==
    {[username |-> None, email |-> e] : e \in Emails \cup {None}}

Next ==
    \/ \E data \in Applicants : Signup(data)
    \/ \E email \in Emails, password \in Passwords : Login(email, password)
    \/ \E token \in Presented : Refresh(token)
    \/ \E token \in Presented : Logout(token)
    \/ \E token \in Presented : GetMyProfile(token)
    \/ \E token \in Presented, username \in Usernames : BanUser(token, username)
    \/ \E token \in Presented, username \in Usernames : UnbanUser(token, username)
    \/ \E t \in Instants : AdvanceTime(t)

Spec == Init /\ [][Next]_vars

(* The administration runs: logins, bans and unbans within one instant *)

NextAdmin ==
    \/ \E data \in Applicants : Signup(data)
    \/ \E email \in Emails, password \in Passwords : Login(email, password)
    \/ \E token \in Presented : Refresh(token)
    \/ \E token \in Presented : Logout(token)
    \/ \E token \in Presented : GetMyProfile(token)
    \/ \E token \in Presented, username \in Usernames : BanUser(token, username)
    \/ \E token \in Presented, username \in Usernames : UnbanUser(token, username)

SpecAdmin == Init /\ [][NextAdmin]_vars

(* The profile runs: accounts that change their email *)

NextProfile ==
    \/ \E data \in Applicants : Signup(data)
    \/ \E email \in Emails, password \in Passwords : Login(email, password)
    \/ \E token \in Presented : Logout(token)
    \/ \E token \in Presented : GetMyProfile(token)
    \/ \E token \in Presented, update \in Updates : UpdateMyProfile(token, update)

SpecProfile == Init /\ [][NextProfile]_vars


-----------------------------------------------------------------------------
(* Sequential signups with every request body *)

NextSignup == \E data \in UserCreate : Signup(data)

SpecSignup == Init /\ [][NextSignup]_vars

-----------------------------------------------------------------------------
(* POST /auth/signup, one awaited database call at a time, so that the
   requests in flight interleave: src/auth/routes.py, src/users/repository.py.
   Every statement reads the committed table. *)

\* the request bodies of the interleaved runs: two people, and a third body
\* that takes the username of the first and the email of the second
RaceData ==
    { [username |-> "n1", email |-> "e1", password |-> "p1"],
      [username |-> "n2", email |-> "e2", password |-> "p1"],
      [username |-> "n1", email |-> "e2", password |-> "p1"] }

Answer(r, response) ==
    /\ reqs' = [reqs EXCEPT ![r] = Idle]
    /\ last' = response

SignupReceive(r, data) ==
    /\ reqs[r].pc = "idle"
    /\ reqs' = [reqs EXCEPT ![r] = [pc |-> "get_user_by_email", data |-> data,
                                    users_count |-> 0]]
    /\ UNCHANGED <<users, blacklist, now, issued, logged_out, last, photos, comments, ratings,
                 minted_for>>

SignupCheckEmail(r) ==
    /\ reqs[r].pc = "get_user_by_email"
    /\ IF get_user_by_email(users, reqs[r].data.email) # 0
       THEN Answer(r, Resp("signup", 409, "User with this email already exists",
                           NoToken, 0, reqs[r].data.email, reqs[r].data.password, {}))
       ELSE /\ reqs' = [reqs EXCEPT ![r].pc = "get_user_by_username"]
            /\ last' = last
    /\ UNCHANGED <<users, blacklist, now, issued, logged_out, photos, comments, ratings,
                 minted_for>>

SignupCheckUsername(r) ==
    /\ reqs[r].pc = "get_user_by_username"
    /\ IF get_user_by_username(users, reqs[r].data.username) # 0
       THEN Answer(r, Resp("signup", 409, "User with this username already exists",
                           NoToken, 0, reqs[r].data.email, reqs[r].data.password, {}))
       ELSE /\ reqs' = [reqs EXCEPT ![r].pc = "count_users"]
            /\ last' = last
    /\ UNCHANGED <<users, blacklist, now, issued, logged_out, photos, comments, ratings,
                 minted_for>>

CreateUserCount(r) ==
    /\ reqs[r].pc = "count_users"
    /\ reqs' = [reqs EXCEPT ![r].pc = "commit",
                            ![r].users_count = count_users(users)]
    /\ UNCHANGED <<users, blacklist, now, issued, logged_out, last, photos, comments, ratings,
                 minted_for>>

\* db.commit(): the INSERT succeeds unless a unique constraint refuses it, in
\* which case IntegrityError escapes the handler
CreateUserCommit(r) ==
    /\ reqs[r].pc = "commit"
    /\ IF UniqueOk(users, reqs[r].data)
       THEN /\ users' = Append(users, NewUser(reqs[r].data, reqs[r].users_count))
            /\ Answer(r, Resp("signup", 201, "", NoToken, Len(users) + 1,
                              reqs[r].data.email, reqs[r].data.password, {}))
       ELSE /\ users' = users
            /\ Answer(r, Resp("signup", 500, "IntegrityError", NoToken, 0,
                              reqs[r].data.email, reqs[r].data.password, {}))
    /\ UNCHANGED <<blacklist, now, issued, logged_out, photos, comments, ratings, minted_for>>

NextRace ==
    \/ \E r \in 1 .. NumReqs, data \in RaceData : SignupReceive(r, data)
    \/ \E r \in 1 .. NumReqs : SignupCheckEmail(r)
    \/ \E r \in 1 .. NumReqs : SignupCheckUsername(r)
    \/ \E r \in 1 .. NumReqs : CreateUserCount(r)
    \/ \E r \in 1 .. NumReqs : CreateUserCommit(r)

SpecRace == Init /\ [][NextRace]_vars

-----------------------------------------------------------------------------
(* PUT /users/me, one awaited database call at a time: src/users/routes.py.
   current_user is the row as get_current_user loaded it when the request
   came in; the handler compares with it and SQLAlchemy writes the attributes
   whose value differs from it. *)

\* the two accounts the runs start with
StoredUsers ==
    << [username |-> "n1", email |-> "e1", hashed_password |-> get_password_hash("p1"),
        role |-> "admin", is_active |-> TRUE],
       [username |-> "n2", email |-> "e2", hashed_password |-> get_password_hash("p1"),
        role |-> "user", is_active |-> TRUE] >>

\* the bodies of the interleaved runs: the username of the second account,
\* and a free username with the email of the second account
RaceUpdates ==
    { [username |-> "n2", email |-> None],
      [username |-> "n3", email |-> "e2"] }

\* the person who signs up meanwhile
Newcomers == { [username |-> "n3", email |-> "e3", password |-> "p1"] }

UpdateReceive(r, me, update) ==
    /\ reqs[r].pc = "idle"
    /\ me \in Ids(users)
    /\ reqs' = [reqs EXCEPT ![r] = [pc |-> "update_check_username", data |-> update,
                                    users_count |-> 0,
                                    current_user |-> [id |-> me,
                                                      username |-> users[me].username,
                                                      email |-> users[me].email]]]
    /\ UNCHANGED <<users, blacklist, now, issued, logged_out, last, photos, comments, ratings,
                 minted_for>>

UpdateAnswer(r, status, detail) ==
    Answer(r, Resp("update_my_profile", status, detail, NoToken,
                   reqs[r].current_user.id, reqs[r].data, None, {}))

UpdateCheckUsername(r) ==
    /\ reqs[r].pc = "update_check_username"
    /\ IF /\ reqs[r].data.username # None
          /\ reqs[r].data.username # reqs[r].current_user.username
          /\ get_user_by_username(users, reqs[r].data.username) # 0
       THEN UpdateAnswer(r, 409, "User with this username already exists")
       ELSE /\ reqs' = [reqs EXCEPT ![r].pc = "update_check_email"]
            /\ last' = last
    /\ UNCHANGED <<users, blacklist, now, issued, logged_out, photos, comments, ratings,
                 minted_for>>

UpdateCheckEmail(r) ==
    /\ reqs[r].pc = "update_check_email"
    /\ IF /\ reqs[r].data.email # None
          /\ reqs[r].data.email # reqs[r].current_user.email
          /\ get_user_by_email(users, reqs[r].data.email) # 0
       THEN UpdateAnswer(r, 409, "User with this email already exists")
       ELSE /\ reqs' = [reqs EXCEPT ![r].pc = "update_commit"]
            /\ last' = last
    /\ UNCHANGED <<users, blacklist, now, issued, logged_out, photos, comments, ratings,
                 minted_for>>

\* the row after the UPDATE: setattr marks an attribute as changed when the
\* new value differs from the loaded one
Updated(table, current_user, update) ==
    [table EXCEPT
        ![current_user.id].username =
            IF update.username # None /\ update.username # current_user.username
            THEN update.username ELSE @,
        ![current_user.id].email =
            IF update.email # None /\ update.email # current_user.email
            THEN update.email ELSE @]

UniqueUsers_Unconstrained(table) == TRUE

\* the unique indexes of users.username and users.email
UniqueUsers(table) ==
    \A i, j \in Ids(table) :
        i # j => table[i].username # table[j].username /\ table[i].email # table[j].email

\* db.commit(): IntegrityError escapes the handler when a unique index
\* refuses the UPDATE
UpdateCommit(r) ==
    /\ reqs[r].pc = "update_commit"
    /\ IF UniqueUsers(Updated(users, reqs[r].current_user, reqs[r].data))
       THEN /\ users' = Updated(users, reqs[r].current_user, reqs[r].data)
            /\ UpdateAnswer(r, 200, "")
       ELSE /\ users' = users
            /\ UpdateAnswer(r, 500, "IntegrityError")
    /\ UNCHANGED <<blacklist, now, issued, logged_out, photos, comments, ratings, minted_for>>

InitUnique ==
    /\ users = StoredUsers
    /\ blacklist = {}
    /\ now = 0
    /\ issued = {}
    /\ logged_out = {}
    /\ reqs = [r \in 1 .. NumReqs |-> Idle]
    /\ last = NoCall
    /\ photos = <<>>
    /\ comments = <<>>
    /\ ratings = <<>>
    /\ minted_for = {}

NextUnique ==
    \/ \E r \in 1 .. NumReqs, data \in Newcomers : SignupReceive(r, data)
    \/ \E r \in 1 .. NumReqs : SignupCheckEmail(r)
    \/ \E r \in 1 .. NumReqs : SignupCheckUsername(r)
    \/ \E r \in 1 .. NumReqs : CreateUserCount(r)
    \/ \E r \in 1 .. NumReqs : CreateUserCommit(r)
    \/ \E r \in 1 .. NumReqs, me \in Ids(users), update \in RaceUpdates :
          UpdateReceive(r, me, update)
    \/ \E r \in 1 .. NumReqs : UpdateCheckUsername(r)
    \/ \E r \in 1 .. NumReqs : UpdateCheckEmail(r)
    \/ \E r \in 1 .. NumReqs : UpdateCommit(r)

SpecUnique == InitUnique /\ [][NextUnique]_vars

-----------------------------------------------------------------------------
(* add_token_to_blacklist called directly, as the unit tests call it, with any
   token: src/tests/auth/test_token_blacklist.py *)

\* the expiry claims of the tokens handed to the function: the seconds of the
\* observed instants, and one second beyond them
TestExps == {Seconds(t) : t \in Instants} \cup {AccessLifeSeconds + 2}

TestTokens ==
    {Garbage}
        \cup {Jwt("e1", NoExp, SECRET_KEY), Jwt(None, NoExp, SECRET_KEY)}
        \cup {Jwt("e1", exp, key) : exp \in TestExps, key \in {SECRET_KEY, "other"}}

AddTokenToBlacklist(token) ==
    /\ blacklist' = add_token_to_blacklist(blacklist, token, now)
    /\ last' = Resp("add_token_to_blacklist", 0, "", token, 0, None, None, {})
    /\ UNCHANGED <<users, now, issued, logged_out, reqs, photos, comments, ratings, minted_for>>

NextBlacklist ==
    \/ \E token \in TestTokens : AddTokenToBlacklist(token)
    \/ \E t \in Instants : AdvanceTime(t)

SpecBlacklist == Init /\ [][NextBlacklist]_vars

-----------------------------------------------------------------------------
(* The rotation runs: refresh tokens presented again and again, up to the
   second in which the refresh tokens minted at start-up expire *)

MaxIssued == 6

\* start-up, the middle of the life of the first refresh tokens, and the ticks
\* around the second in which they expire
RotationInstants ==
    {0, (RefreshLifeSeconds \div 2) * TicksPerSecond}
        \cup ((RefreshLifeSeconds * TicksPerSecond - Window)
                .. ((RefreshLifeSeconds + 1) * TicksPerSecond - 1 + Window))

\* what a client can put in the body of POST /auth/refresh: a token the server
\* gave out, a string that is no JWT, a JWT signed with another key, and a JWT
\* signed with the server's key that has no sub claim
RefreshBodies ==
    Presented \cup {Jwt("e1", NoExp, "other"), Jwt(None, NoExp, SECRET_KEY)}

RefreshWithinBound(token) ==
    /\ refresh_tokens(token)
    /\ Cardinality(issued') <= MaxIssued

NextRotation ==
    \/ \E data \in Applicants : Signup(data)
    \/ \E email \in Emails, password \in Passwords : Login(email, password)
    \/ \E token \in RefreshBodies : RefreshWithinBound(token)
    \/ \E t \in RotationInstants : AdvanceTime(t)

SpecRotation == Init /\ [][NextRotation]_vars



-----------------------------------------------------------------------------
(* The status runs: the four operations that set the active flag, with people
   whose username is a numeral *)

StatusApplicants ==
    { [username |-> "2",  email |-> "e1", password |-> "p1"],
      [username |-> "n2", email |-> "e2", password |-> "p2"] }

Identifiers == {"1", "2", "n2"}

NextStatus ==
    \/ \E data \in StatusApplicants : Signup(data)
    \/ \E email \in Emails, password \in Passwords : Login(email, password)
    \/ \E token \in Presented, username \in Identifiers : BanUser(token, username)
    \/ \E token \in Presented, username \in Identifiers : UnbanUser(token, username)
    \/ \E token \in Presented, identifier \in Identifiers : ActivateUser(token, identifier)
    \/ \E token \in Presented, identifier \in Identifiers : DeactivateUser(token, identifier)

SpecStatus == Init /\ [][NextStatus]_vars

-----------------------------------------------------------------------------
(* The token functions called directly, as the unit tests call them:
   src/tests/auth/test_security.py *)

MaxMinted == 1

\* start-up and the ticks around the two expiries of what was minted then
CodecInstants == Instants \cup RotationInstants

\* the strings handed to decode_token: what was minted, a string that is no
\* JWT, a JWT signed with another key, a JWT of the server's without sub
CodecTokens ==
    issued \cup {Garbage, Jwt("e1", NoExp, "other"), Jwt(None, NoExp, SECRET_KEY)}

Mint(op, sub, token) ==
    /\ Cardinality(issued \cup {token}) <= MaxMinted
    /\ issued' = issued \cup {token}
    /\ last' = Resp(op, 0, "", token, 0, sub, None, {token})
    /\ UNCHANGED <<users, blacklist, now, logged_out, reqs, photos, comments, ratings, minted_for>>

CreateAccessToken(sub) == Mint("create_access_token", sub, create_access_token(sub, now))

CreateRefreshToken(sub) == Mint("create_refresh_token", sub, create_refresh_token(sub, now))

\* the result is kept in detail
DecodeToken(token) ==
    /\ last' = Resp("decode_token", 0, decode_token(token, now), token, 0, None, None, {})
    /\ UNCHANGED <<users, blacklist, now, issued, logged_out, reqs, photos, comments, ratings,
                 minted_for>>

NextCodec ==
    \/ \E sub \in Emails : CreateAccessToken(sub)
    \/ \E sub \in Emails : CreateRefreshToken(sub)
    \/ \E token \in CodecTokens : DecodeToken(token)
    \/ \E t \in CodecInstants : AdvanceTime(t)

SpecCodec == Init /\ [][NextCodec]_vars

-----------------------------------------------------------------------------
(* The refresh runs: tokens of accounts that were banned or that changed their
   email, and strings that are no token of the server's, handed to refresh, to
   get_current_user and to decode_token, at start-up and once the first
   tokens have expired *)

RefreshInstants == {0, (RefreshLifeSeconds + 1) * TicksPerSecond}

\* the body of PUT /users/me in the refresh runs: a move to a free email
RefreshUpdates == {[username |-> None, email |-> "e3"]}

NextRefresh ==
    \/ \E data \in Applicants : Signup(data)
    \/ \E email \in Emails, password \in Passwords : Login(email, password)
    \/ \E token \in RefreshBodies : RefreshWithinBound(token)
    \/ \E token \in Presented, username \in Usernames : BanUser(token, username)
    \/ \E token \in Presented, username \in Usernames : UnbanUser(token, username)
    \/ \E token \in Presented, update \in RefreshUpdates : UpdateMyProfile(token, update)
    \/ \E token \in RefreshBodies : GetMyProfile(token)
    \/ \E token \in RefreshBodies : DecodeToken(token)
    \/ \E t \in RefreshInstants : AdvanceTime(t)

SpecRefresh == Init /\ [][NextRefresh]_vars

-----------------------------------------------------------------------------
(* The rating runs: people upload photos and rate them *)

NextRatings ==
    \/ \E data \in Applicants : Signup(data)
    \/ \E email \in Emails, password \in Passwords : Login(email, password)
    \/ \E token \in Presented, file \in {"image", "text"}, stored \in BOOLEAN :
          UploadPhoto(token, file, stored, "d1")
    \/ \E token \in Presented, photo_id \in 1 .. MaxPhotos, score \in Scores :
          AddRating(token, photo_id, score)

SpecRatings == Init /\ [][NextRatings]_vars

-----------------------------------------------------------------------------
(* The role runs: an admin, a moderator and a user, and a photo of the user's.
   No route assigns the moderator role; the accounts are in the tables as the
   test fixtures put them there. *)

SeededUsers ==
    << [username |-> "n1", email |-> "e1", hashed_password |-> get_password_hash("p1"),
        role |-> "admin", is_active |-> TRUE],
       [username |-> "n2", email |-> "e2", hashed_password |-> get_password_hash("p1"),
        role |-> "moderator", is_active |-> TRUE],
       [username |-> "n3", email |-> "e3", hashed_password |-> get_password_hash("p1"),
        role |-> "user", is_active |-> TRUE] >>

SeededPhotos == << [user_id |-> 3, description |-> "d1", live |-> TRUE] >>

InitRoles ==
    /\ users = SeededUsers
    /\ blacklist = {}
    /\ now = 0
    /\ issued = {}
    /\ logged_out = {}
    /\ reqs = [r \in 1 .. NumReqs |-> Idle]
    /\ last = NoCall
    /\ photos = SeededPhotos
    /\ comments = <<>>
    /\ ratings = <<>>
    /\ minted_for = {}

NextRoles ==
    \/ \E email \in Emails, password \in Passwords : Login(email, password)
    \/ \E token \in Presented, photo_id \in 1 .. MaxPhotos :
          CreateComment(token, photo_id, "c1")
    \/ \E token \in Presented, comment_id \in 1 .. MaxComments :
          DeleteComment(token, comment_id)
    \/ \E token \in Presented, username \in Usernames : BanUser(token, username)
    \/ \E token \in Presented, username \in Usernames : UnbanUser(token, username)

SpecRoles == InitRoles /\ [][NextRoles]_vars

-----------------------------------------------------------------------------
(* The runs of interleaved signups followed by logins, bans and unbans *)

NextRaceAdmin ==
    \/ \E r \in 1 .. NumReqs, data \in Applicants : SignupReceive(r, data)
    \/ \E r \in 1 .. NumReqs : SignupCheckEmail(r)
    \/ \E r \in 1 .. NumReqs : SignupCheckUsername(r)
    \/ \E r \in 1 .. NumReqs : CreateUserCount(r)
    \/ \E r \in 1 .. NumReqs : CreateUserCommit(r)
    \/ \E email \in Emails, password \in Passwords : Login(email, password)
    \/ \E token \in Presented, username \in Usernames : BanUser(token, username)
    \/ \E token \in Presented, username \in Usernames : UnbanUser(token, username)

SpecRaceAdmin == Init /\ [][NextRaceAdmin]_vars

-----------------------------------------------------------------------------
(* The provenance runs: accounts that change their email, with the history of
   whom each login handed its tokens to *)

NextProvenance ==
    \/ \E data \in Applicants : Signup(data)
    \/ \E email \in Emails, password \in Passwords : LoginNoted(email, password)
    \/ \E token \in Presented, update \in Updates : UpdateMyProfile(token, update)
    \/ \E token \in Presented : GetMyProfile(token)

SpecProvenance == Init /\ [][NextProvenance]_vars

-----------------------------------------------------------------------------
(* The runs of everything that writes an account *)

FrameUpdates ==
    { [username |-> "n3", email |-> "e3"],
      [username |-> "n2", email |-> None] }

NextFrame ==
    \/ \E data \in Applicants : Signup(data)
    \/ \E email \in Emails, password \in Passwords : Login(email, password)
    \/ \E token \in Presented, update \in FrameUpdates : UpdateMyProfile(token, update)
    \/ \E token \in Presented, username \in Usernames : BanUser(token, username)
    \/ \E token \in Presented, username \in Usernames : UnbanUser(token, username)

SpecFrame == Init /\ [][NextFrame]_vars

-----------------------------------------------------------------------------
(* The search runs: people upload photos, rate them and search *)

MaxSkip == 1
MaxLimit == 2

\* the bounds on the average a search gives; the route admits 1 to 5
MinRatingBounds == {Absent, <<4>>}
MaxRatingBounds == {Absent, <<2>>}

NextSearch ==
    \/ \E data \in Applicants : Signup(data)
    \/ \E email \in Emails, password \in Passwords : Login(email, password)
    \/ \E token \in Presented : UploadPhoto(token, "image", TRUE, "d1")
    \/ \E token \in Presented, photo_id \in 1 .. MaxPhotos, score \in Scores :
          AddRating(token, photo_id, score)
    \/ \E user_id \in {Absent, <<1>>}, min_rating \in MinRatingBounds, max_rating \in MaxRatingBounds,
          sort_order \in {"asc", "desc"}, skip \in 0 .. MaxSkip, limit \in 1 .. MaxLimit :
          SearchAdvanced(user_id, min_rating, max_rating, sort_order, skip, limit)

SpecSearch == Init /\ [][NextSearch]_vars

-----------------------------------------------------------------------------
(* The account runs: every operation of the session and of the profile within
   one instant *)

AccountUpdates ==
    { [username |-> None, email |-> "e3"] }

NextAccounts ==
    \/ \E data \in Applicants : Signup(data)
    \/ \E email \in Emails, password \in Passwords : Login(email, password)
    \/ \E token \in Presented : Refresh(token)
    \/ \E token \in Presented : Logout(token)
    \/ \E token \in Presented : GetMyProfile(token)
    \/ \E token \in Presented, update \in AccountUpdates : UpdateMyProfile(token, update)
    \/ \E token \in Presented, username \in Usernames : BanUser(token, username)
    \/ \E token \in Presented, username \in Usernames : UnbanUser(token, username)

SpecAccounts == Init /\ [][NextAccounts]_vars

-----------------------------------------------------------------------------
(* The comment runs: the seeded accounts comment on the seeded photo, edit and
   delete *)

NextComments ==
    \/ \E email \in Emails, password \in Passwords : Login(email, password)
    \/ \E token \in Presented, photo_id \in 1 .. MaxPhotos :
          CreateComment(token, photo_id, "c1")
    \/ \E token \in Presented, comment_id \in 1 .. MaxComments + 1 :
          UpdateComment(token, comment_id, "c2")
    \/ \E token \in Presented, comment_id \in 1 .. MaxComments + 1 :
          DeleteComment(token, comment_id)

SpecComments == InitRoles /\ [][NextComments]_vars

-----------------------------------------------------------------------------
(* The photo runs: the seeded accounts change, delete and fetch two photos that
   are in the table, one of the user and one of the moderator *)

Descriptions == {"d2", None}

StoredPhotos ==
    << [user_id |-> 3, description |-> "d1", live |-> TRUE],
       [user_id |-> 2, description |-> "d1", live |-> TRUE] >>

InitPhotos ==
    /\ users = SeededUsers
    /\ blacklist = {}
    /\ now = 0
    /\ issued = {}
    /\ logged_out = {}
    /\ reqs = [r \in 1 .. NumReqs |-> Idle]
    /\ last = NoCall
    /\ photos = StoredPhotos
    /\ comments = <<>>
    /\ ratings = <<>>
    /\ minted_for = {}

NextPhotos ==
    \/ \E email \in Emails, password \in Passwords : Login(email, password)
    \/ \E token \in Presented, photo_id \in 1 .. MaxPhotos, description \in Descriptions :
          UpdatePhoto(token, photo_id, description)
    \/ \E token \in Presented, photo_id \in 1 .. MaxPhotos, removed \in BOOLEAN :
          DeletePhoto(token, photo_id, removed)
    \/ \E photo_id \in 1 .. MaxPhotos : GetPhoto(photo_id)

SpecPhotos == InitPhotos /\ [][NextPhotos]_vars

-----------------------------------------------------------------------------
(* Properties *)

Admins == {i \in Ids(users) : users[i].role = "admin"}

\* the account a token's subject names, or 0
AccountOf(token) ==
    IF \E i \in Ids(users) : users[i].email = token.sub
    THEN CHOOSE i \in Ids(users) : users[i].email = token.sub
    ELSE 0

\* the instant is strictly before the token's expiry timestamp
BeforeExpiry(token) == now < token.exp * TicksPerSecond

\* C1: signups handled one after another give role admin to the first account
\* created and role user to every later one, so that once an account exists
\* exactly one account is admin.
C1_FirstAccountIsTheOnlyAdmin ==
    /\ \A i \in Ids(users) : users[i].role = (IF i = 1 THEN "admin" ELSE "user")
    /\ (users # <<>> => Cardinality(Admins) = 1)

C1_ThreeSignups ==
    /\ Len(users) = 3
    /\ <<users[1].role, users[2].role, users[3].role>> = <<"admin", "user", "user">>
    /\ last.op = "signup" /\ last.status = 201 /\ last.user = 3

\* C2: when signup requests with different emails and usernames run
\* concurrently against an empty users table, at most one account ends up with
\* role admin.
C2_AtMostOneAdminUnderRace == Cardinality(Admins) <= 1

\* C3: once logout with token T has answered 204, every authentication with T
\* before T's expiry is rejected with 401 "Token has been revoked".
C3_LoggedOutTokenIsRejected ==
    \A token \in logged_out :
        BeforeExpiry(token) => get_current_user(token, now) = AuthResult(401, REVOKED, 0)

\* C4: the entry logout stores for T lives exactly T's remaining lifetime: it is
\* present at every instant before T's expiry, its time-to-live ends at T's
\* expiry, and it is gone once T is expired.
C4_EntryLivesUntilExpiry ==
    /\ \A token \in logged_out : BeforeExpiry(token) => redis_exists(blacklist, token, now)
    /\ \A e \in blacklist : e.expire_at = e.token.exp * TicksPerSecond
    /\ \A e \in blacklist : JwtAccepted(e.token, now)

\* C5: add_token_to_blacklist leaves the store exactly as it was when the token
\* is unparsable or wrongly signed, has no exp claim, or has a remaining
\* lifetime that is not positive.
NotAdmissible(token) ==
    \/ token.form # "jwt"
    \/ token.key # SECRET_KEY
    \/ token.exp = NoExp
    \/ token.exp * TicksPerSecond - now <= 0

C5_RevokeIsNoOpWhenNotAdmissible ==
    [][\A token \in TestTokens :
          (AddTokenToBlacklist(token) /\ NotAdmissible(token)) => blacklist' = blacklist]_vars

C5_NoOpOnNonEmptyStore ==
    /\ last.op = "add_token_to_blacklist"
    /\ last.token = Jwt("e1", NoExp, SECRET_KEY)
    /\ blacklist # {}


\* C6: get_current_user decides in a fixed order: a token that fails decode or
\* carries no subject gets 401 "Could not validate credentials"; otherwise a
\* token in the blacklist gets 401 "Token has been revoked"; otherwise a
\* subject that no account has gets 401 "Could not validate credentials";
\* otherwise the account with that email is returned. A revoked, unexpired
\* token whose account is gone is therefore answered "Token has been revoked".
Undecodable(token) ==
    \/ token.form # "jwt"
    \/ token.key # SECRET_KEY
    \/ (token.exp # NoExp /\ token.exp < Seconds(now))
    \/ token.sub = None

InBlacklist(token) == \E e \in blacklist : e.token = token /\ now <= e.expire_at

C6_AuthenticationOrder ==
    last.op = "get_my_profile" =>
        IF Undecodable(last.token)
        THEN last.status = 401 /\ last.detail = CREDENTIALS
        ELSE IF InBlacklist(last.token)
        THEN last.status = 401 /\ last.detail = REVOKED
        ELSE IF AccountOf(last.token) = 0
        THEN last.status = 401 /\ last.detail = CREDENTIALS
        ELSE last.status = 200 /\ last.user = AccountOf(last.token)

C6_RevokedTokenOfVanishedAccount ==
    /\ last.op = "get_my_profile"
    /\ ~Undecodable(last.token)
    /\ InBlacklist(last.token)
    /\ AccountOf(last.token) = 0
    /\ last.detail = REVOKED

\* C7: authentication alone does not look at the active flag: a token of a
\* deactivated account that is neither expired nor revoked still authenticates
\* at an endpoint guarded by get_current_user, while login with the right
\* password and refresh answer 403 "User account is deactivated".
Deactivated(token) == AccountOf(token) # 0 /\ ~users[AccountOf(token)].is_active

C8_BanBlocksLoginAndAccess ==
    \A u \in Ids(users) :
        (/\ ~users[u].is_active
         /\ last.op \in {"login", "get_my_profile"}
         /\ last.user = u)
        => last.status # 200

\* C9: a login with an email no account has and a login with a wrong password
\* for an existing email get the same answer, 401 "Incorrect username or
\* password", and no token is minted for either.
WrongCredentials(email, password) ==
    \/ \A i \in Ids(users) : users[i].email # email
    \/ \E i \in Ids(users) :
          users[i].email = email /\ users[i].hashed_password # get_password_hash(password)

C9_LoginDoesNotTellWhichPartWasWrong ==
    (last.op = "login" /\ WrongCredentials(last.name, last.password))
        => /\ last.status = 401
           /\ last.detail = INCORRECT
           /\ last.user = 0
           /\ last.minted = {}

C9_WrongPasswordForExistingEmail ==
    /\ last.op = "login"
    /\ \E i \in Ids(users) :
          users[i].email = last.name /\ users[i].hashed_password # get_password_hash(last.password)
    /\ last.status = 401

\* C10: a login with the right password returns an access token and a refresh
\* token exactly when the account is active at that moment, and fails with 403
\* "User account is deactivated" exactly when it is not, whatever bans and
\* unbans came before.
C10_LoginFollowsActiveFlag ==
    \A i \in Ids(users) :
        (/\ last.op = "login"
         /\ users[i].email = last.name
         /\ users[i].hashed_password = get_password_hash(last.password))
        => IF users[i].is_active
           THEN /\ last.status = 200
                /\ last.minted = { Jwt(last.name, Seconds(now) + 30 * 60, SECRET_KEY),
                                   Jwt(last.name, Seconds(now) + 7 * 24 * 60 * 60, SECRET_KEY) }
                /\ last.minted \subseteq issued
           ELSE /\ last.status = 403
                /\ last.detail = DEACTIVATED
                /\ last.minted = {}

C10_BannedUserLoginRefused ==
    /\ Len(users) = 2
    /\ users[1].role = "admin" /\ users[2].role = "user"
    /\ last.op = "login" /\ last.user = 2
    /\ last.status = 403 /\ last.detail = DEACTIVATED
    /\ \E token \in issued : token.sub = users[2].email

\* C11: refresh has exactly four outcomes: 401 when the presented token fails
\* decode (no JWT, wrong signature, expired, no subject); 401 when no account
\* has the subject's email; 403 "User account is deactivated" when that account
\* is not active; otherwise one new access token and one new refresh token for
\* that account's email. It never changes the users table or the blacklist.
C11_RefreshOutcomes ==
    [][\A token \in RefreshBodies :
          RefreshWithinBound(token) =>
            /\ users' = users
            /\ blacklist' = blacklist
            /\ last'.op = "refresh"
            /\ IF Undecodable(token)
               THEN last'.status = 401 /\ last'.minted = {}
               ELSE IF AccountOf(token) = 0
               THEN last'.status = 401 /\ last'.minted = {}
               ELSE IF ~users[AccountOf(token)].is_active
               THEN /\ last'.status = 403
                    /\ last'.detail = DEACTIVATED
                    /\ last'.minted = {}
               ELSE /\ last'.status = 200
                    /\ last'.minted =
                         { Jwt(token.sub, Seconds(now) + 30 * 60, SECRET_KEY),
                           Jwt(token.sub, Seconds(now) + 7 * 24 * 60 * 60, SECRET_KEY) }
                    /\ last'.minted \subseteq issued']_vars

C11_RefreshOfVanishedAccount ==
    /\ last.op = "refresh"
    /\ last.token \in issued
    /\ ~Undecodable(last.token)
    /\ AccountOf(last.token) = 0
    /\ last.status = 401
    /\ \E i \in Ids(users) : ~users[i].is_active

\* C12: rotation does not revoke the refresh token it was given: a refresh
\* token for whose subject newer tokens have been signed since is still
\* accepted by refresh, every time it is presented, and yields a new pair, as
\* long as it has not reached its expiry and the account exists and is active.
Rotated(token) ==
    \E newer \in issued : newer.sub = token.sub /\ newer.exp > token.exp

C12_RotatedTokenStaysUsable ==
    [][\A token \in issued :
          (/\ RefreshWithinBound(token)
           /\ Rotated(token)
           /\ BeforeExpiry(token)
           /\ AccountOf(token) # 0
           /\ users[AccountOf(token)].is_active)
          => /\ last'.status = 200
             /\ last'.minted =
                  { create_access_token(token.sub, now),
                    create_refresh_token(token.sub, now) }
             /\ last'.minted \subseteq issued'
             /\ blacklist' = blacklist]_vars

C12_ThirdPairFromTheFirstToken ==
    /\ last.op = "refresh"
    /\ Rotated(last.token)
    /\ last.status = 200
    /\ last.token = Jwt("e1", RefreshLifeSeconds, SECRET_KEY)
    /\ BeforeExpiry(last.token)
    /\ now > (RefreshLifeSeconds \div 2) * TicksPerSecond
    /\ Jwt("e1", RefreshLifeSeconds + RefreshLifeSeconds \div 2, SECRET_KEY) \in issued
    /\ Cardinality({token \in issued : token.sub = "e1"}) = 6

\* C13: a refresh token is good for refresh only: presented as the bearer
\* credential at an endpoint guarded by get_current_user (logout, the profile,
\* the RoleChecker-gated ban and unban) it is never accepted as an
\* authenticated principal.
SignedAsRefreshToken(token) ==
    \E email \in Emails, t \in Instants : token = create_refresh_token(email, t)

C13_RefreshTokenIsNoBearerCredential ==
    (/\ last.op \in {"logout", "get_my_profile", "ban_user", "unban_user"}
     /\ SignedAsRefreshToken(last.token))
    => last.status = 401

\* C14: an admin who calls ban, unban, activate or deactivate with their own
\* account as the target (their own username, or their own id where ids are
\* accepted) is answered 400 "Cannot change your own account status", and no
\* account's active flag changes.
NamesAccount(identifier, i) ==
    identifier = users[i].username \/ identifier = Numerals[i]

Authenticates(token) ==
    ~Undecodable(token) /\ ~InBlacklist(token) /\ AccountOf(token) # 0

RoleGate(allowed_roles, token, untouched) ==
    IF ~Authenticates(token)
    THEN last'.status = 401 /\ untouched
    ELSE IF users[AccountOf(token)].role \notin allowed_roles
    THEN last'.status = 403 /\ last'.detail = FORBIDDEN /\ untouched
    ELSE last'.status \notin {401, 403} /\ last'.user # 0

C15_RoleGate ==
    [][/\ last'.op \in {"ban_user", "unban_user"}
            => RoleGate({"admin"}, last'.token, users' = users)
       /\ last'.op = "delete_comment"
            => RoleGate({"admin", "moderator"}, last'.token, comments' = comments)]_vars

C15_ModeratorDeniedBan ==
    /\ last.op = "ban_user"
    /\ last.status = 403
    /\ users[AccountOf(last.token)].role = "moderator"
    /\ \E c \in DOMAIN comments : ~comments[c].live

\* C16: signup with a registered email is answered 409 "User with this email
\* already exists"; signup with a new email and a registered username is
\* answered 409 "User with this username already exists" (the email is looked
\* at first); either way no account is created and none is changed. Any other
\* signup creates the account.
C16_SignupConflicts ==
    [][\A data \in UserCreate :
          Signup(data) =>
            IF \E i \in Ids(users) : users[i].email = data.email
            THEN /\ last'.status = 409
                 /\ last'.detail = "User with this email already exists"
                 /\ users' = users
            ELSE IF \E i \in Ids(users) : users[i].username = data.username
            THEN /\ last'.status = 409
                 /\ last'.detail = "User with this username already exists"
                 /\ users' = users
            ELSE /\ last'.status = 201
                 /\ Len(users') = Len(users) + 1
                 /\ SubSeq(users', 1, Len(users)) = users
                 /\ users'[Len(users')].email = data.email
                 /\ users'[Len(users')].username = data.username]_vars

C16_UsernameTakenEmailNew ==
    /\ last.op = "signup"
    /\ last.status = 409
    /\ last.detail = "User with this username already exists"
    /\ \A i \in Ids(users) : users[i].email # last.name
    /\ Len(users) = 2

\* C17: a token decodes to the subject it was issued for at every instant
\* before its expiry, for access and refresh tokens alike; the expiry of an
\* access token is its issue time plus 30 minutes and that of a refresh token
\* its issue time plus 7 days, in the whole seconds of the exp claim.
DueAfter(token, t, life) ==
    LET due == t + life * TicksPerSecond IN
    /\ token.exp * TicksPerSecond <= due
    /\ due < (token.exp + 1) * TicksPerSecond

C17_IssueDecodeRoundTrip ==
    [][/\ last'.op = "create_access_token"
            => DueAfter(last'.token, now, 30 * 60) /\ last'.token.sub = last'.name
       /\ last'.op = "create_refresh_token"
            => DueAfter(last'.token, now, 7 * 24 * 60 * 60) /\ last'.token.sub = last'.name
       /\ (/\ last'.op = "decode_token"
           /\ last'.token \in issued
           /\ BeforeExpiry(last'.token))
            => last'.detail = last'.token.sub]_vars

C17_DecodedInTheLastSecond ==
    /\ last.op = "decode_token"
    /\ last.token \in issued
    /\ last.token.exp = Seconds(now) + 1
    /\ last.token.exp \in {30 * 60, 7 * 24 * 60 * 60}
    /\ last.detail = "e2"

\* C18: a token presented at any instant after its expiry timestamp is
\* rejected: an endpoint guarded by get_current_user answers 401 "Could not
\* validate credentials", whether or not the token was revoked before, and
\* refresh answers 401.
AfterExpiry(token) == token.exp # NoExp /\ now > token.exp * TicksPerSecond

C18_ExpiredTokenIsRejected ==
    (last.token.form = "jwt" /\ AfterExpiry(last.token))
    => /\ last.op \in {"get_my_profile", "logout"}
            => last.status = 401 /\ last.detail = CREDENTIALS
       /\ last.op = "refresh" => last.status = 401

\* C19: decode_token raises nothing: a string that is no JWT, a JWT with a
\* wrong signature and a JWT of the server's without a sub claim decode to
\* None, on every call, and get_current_user and refresh answer them with 401,
\* not with an internal error.
NoTokenOfTheServer(token) ==
    \/ token.form = "garbage"
    \/ token.form = "jwt" /\ token.key # SECRET_KEY
    \/ token.form = "jwt" /\ token.key = SECRET_KEY /\ token.sub = None

C19_InvalidTokenDecodesToNone ==
    NoTokenOfTheServer(last.token)
    => /\ last.op = "decode_token" => last.detail = None
       /\ last.op \in {"get_my_profile", "refresh"} => last.status = 401

C19_TokenWithoutSubject ==
    /\ last.op = "decode_token"
    /\ last.token = Jwt(None, NoExp, SECRET_KEY)
    /\ last.detail = None
    /\ Len(users) = 2
    /\ now > 0

\* C20: whatever add_rating calls are made, every photo has at most one rating
\* per user and none by its owner: an authenticated call on one's own photo is
\* answered 403 "You cannot rate your own photo", a second rating of a photo by
\* the same user 409 "You have already rated this photo" with the first
\* rating's score as it was, and a call on a photo that does not exist 404;
\* none of the three changes the ratings.
RatedBy(table, user_id, photo_id) ==
    {r \in DOMAIN table : /\ table[r].live
                          /\ table[r].user_id = user_id
                          /\ table[r].photo_id = photo_id}

OneRatingPerUserNoneByOwner(table) ==
    \A photo_id \in DOMAIN photos, user_id \in DOMAIN users :
        /\ Cardinality(RatedBy(table, user_id, photo_id)) <= 1
        /\ photos[photo_id].user_id = user_id => RatedBy(table, user_id, photo_id) = {}

AddRatingAnswer(caller, photo_id) ==
    IF ~(photo_id \in DOMAIN photos /\ photos[photo_id].live)
    THEN last'.status = 404 /\ ratings' = ratings
    ELSE IF photos[photo_id].user_id = caller
    THEN /\ last'.status = 403
         /\ last'.detail = "You cannot rate your own photo"
         /\ ratings' = ratings
    ELSE IF RatedBy(ratings, caller, photo_id) # {}
    THEN /\ last'.status = 409
         /\ last'.detail = "You have already rated this photo"
         /\ ratings' = ratings
    ELSE /\ last'.status = 201
         /\ Len(ratings') = Len(ratings) + 1
         /\ \A r \in DOMAIN ratings : ratings'[r] = ratings[r]
         /\ ratings'[Len(ratings')].user_id = caller
         /\ ratings'[Len(ratings')].photo_id = photo_id

C20_RatingRules ==
    [][/\ OneRatingPerUserNoneByOwner(ratings')
       /\ (last'.op = "add_rating" /\ Authenticates(last'.token))
            => AddRatingAnswer(AccountOf(last'.token), IntOf(last'.name))]_vars

C20_SecondRatingRefused ==
    /\ last.op = "add_rating"
    /\ last.status = 409
    /\ last.detail = "You have already rated this photo"
    /\ \E r \in DOMAIN ratings :
          /\ ratings[r].user_id = last.user
          /\ Numerals[ratings[r].photo_id] = last.name
          /\ ratings[r].score = 1
    /\ \E p \in DOMAIN photos : photos[p].user_id = last.user

\* C21: update_photo and delete_photo by an authenticated caller answer 404 for
\* a photo id that names no photo, before any permission test; 403 "Not enough
\* permissions" with the photos as they were when the caller is neither the
\* photo's owner nor an admin, a moderator included; and take effect otherwise.
\* A deleted photo stays deleted and get_photo answers 404 for it, whether or
\* not the media host removed the image.
Deleted(photo_id) == photo_id \in DOMAIN photos /\ ~photos[photo_id].live

PhotoChangeAnswer(op, caller, photo_id) ==
    IF ~(photo_id \in DOMAIN photos /\ photos[photo_id].live)
    THEN last'.status = 404 /\ photos' = photos
    ELSE IF photos[photo_id].user_id # caller /\ users[caller].role # "admin"
    THEN last'.status = 403 /\ last'.detail = NOT_ENOUGH /\ photos' = photos
    ELSE IF op = "delete_photo"
    THEN last'.status = 204 /\ ~photos'[photo_id].live
    ELSE last'.status = 200 /\ photos'[photo_id].live

C21_PhotoOwnerOrAdmin ==
    [][/\ (last'.op \in {"update_photo", "delete_photo"} /\ Authenticates(last'.token))
            => PhotoChangeAnswer(last'.op, AccountOf(last'.token), IntOf(last'.name))
       /\ \A photo_id \in DOMAIN photos :
            Deleted(photo_id)
            => /\ ~photos'[photo_id].live
               /\ (last'.op = "get_photo" /\ last'.name = Numerals[photo_id])
                    => last'.status = 404]_vars

C21_ModeratorDeniedDelete ==
    /\ last.op = "delete_photo"
    /\ last.status = 403
    /\ last.detail = NOT_ENOUGH
    /\ last.token \in issued
    /\ users[AccountOf(last.token)].role = "moderator"
    /\ photos[IntOf(last.name)].live
    /\ \E photo_id \in DOMAIN photos : Deleted(photo_id)

\* C22: update_comment changes the text only for the comment's author: any
\* other authenticated caller, an admin included, is answered 403 and the
\* comments stay as they were.  delete_comment by a caller of role user, the
\* author included, is answered 403 and the comments stay as they were.  For an
\* id that names no comment update_comment answers 404 to every authenticated
\* caller and delete_comment answers 404 to an admin or moderator.
NoComment(comment_id) ==
    ~(comment_id \in DOMAIN comments /\ comments[comment_id].live)

UpdateCommentAnswer(caller, comment_id) ==
    IF NoComment(comment_id)
    THEN last'.status = 404 /\ comments' = comments
    ELSE IF comments[comment_id].user_id # caller
    THEN last'.status = 403 /\ comments' = comments
    ELSE /\ last'.status = 200
         /\ comments' = [comments EXCEPT ![comment_id].text = comments'[comment_id].text]

DeleteCommentAnswer(caller, comment_id) ==
    IF users[caller].role = "user"
    THEN last'.status = 403 /\ comments' = comments
    ELSE IF NoComment(comment_id)
    THEN last'.status = 404 /\ comments' = comments
    ELSE last'.status = 204 /\ ~comments'[comment_id].live

C22_CommentAuthorAndStaff ==
    [][Authenticates(last'.token)
        => /\ last'.op = "update_comment"
                => UpdateCommentAnswer(AccountOf(last'.token), IntOf(last'.name))
           /\ last'.op = "delete_comment"
                => DeleteCommentAnswer(AccountOf(last'.token), IntOf(last'.name))]_vars

C22_AdminDeniedEdit ==
    /\ last.op = "update_comment"
    /\ last.status = 403
    /\ last.detail = OWN_COMMENTS
    /\ last.token \in issued
    /\ users[AccountOf(last.token)].role = "admin"
    /\ comments[IntOf(last.name)].user_id = 3
    /\ comments[IntOf(last.name)].text = "c2"

\* C23: a request that only authenticates, and every request that
\* get_current_user rejects, leaves the accounts and the revocation store
\* exactly as they were; a revocation entry is added by logout alone, and the
\* accounts are written by signup, update_my_profile, ban and unban alone.
Writers == {"signup", "update_my_profile", "ban_user", "unban_user"}

C23_AuthenticationReadsOnly ==
    [][/\ (last'.op = "get_my_profile" \/ last'.status = 401)
            => users' = users /\ blacklist' = blacklist
       /\ blacklist' \ blacklist # {} => last'.op = "logout"
       /\ users' # users => last'.op \in Writers]_vars

C23_AcceptedAfterWrites ==
    /\ last.op = "get_my_profile"
    /\ last.status = 200
    /\ blacklist # {}
    /\ \E i \in Ids(users) : ~users[i].is_active
    /\ \E i \in Ids(users) : users[i].email = "e3"

\* C24: search_advanced returns (photos, total) where total is the number of
\* the photos that pass every filter, the bounds on the average rating
\* included, whatever skip and limit are, and photos is the page
\* [skip, skip + limit) of those photos.
Matches(args) ==
    LET Admitted(id) == RatingAdmits(id, args.min_rating, args.max_rating)
    IN  SelectSeq(Selected(args.user_id, args.sort_order), Admitted)

C24_SearchTotalAndPage ==
    last.op = "search_advanced"
    => /\ last.detail[2] = Len(Matches(last.name))
       /\ last.detail[1] = Page(Matches(last.name), last.name.skip, last.name.limit)

\* C25: under every interleaving of the database calls of signup and
\* update_my_profile requests no two accounts share a username and no two
\* share an email.  An update_my_profile whose lookup finds the requested
\* username or email at another account is answered 409, no update that names
\* a username or email of another account changes anything, and a request that
\* submits the caller's own current username or email is accepted.
NoTwoShare(table) ==
    \A i, j \in DOMAIN table :
        (table[i].username = table[j].username \/ table[i].email = table[j].email)
        => i = j

Fresh(r) ==
    /\ reqs[r].current_user.username = users[reqs[r].current_user.id].username
    /\ reqs[r].current_user.email = users[reqs[r].current_user.id].email

UsernameOfAnother(r) ==
    \E i \in Ids(users) :
        i # reqs[r].current_user.id /\ users[i].username = reqs[r].data.username

EmailOfAnother(r) ==
    \E i \in Ids(users) :
        i # reqs[r].current_user.id /\ users[i].email = reqs[r].data.email

OwnCurrent(r) ==
    /\ reqs[r].data.username \in {None, users[reqs[r].current_user.id].username}
    /\ reqs[r].data.email \in {None, users[reqs[r].current_user.id].email}

Answers(r, status) == reqs'[r].pc = "idle" /\ last'.status = status /\ users' = users

UpdateStep(r) ==
    /\ (reqs[r].pc = "update_check_username" /\ UsernameOfAnother(r)) => Answers(r, 409)
    /\ (reqs[r].pc = "update_check_email" /\ EmailOfAnother(r)) => Answers(r, 409)
    /\ (reqs[r].pc = "update_commit" /\ (UsernameOfAnother(r) \/ EmailOfAnother(r)))
         => Answers(r, 500)
    /\ (reqs[r].pc = "update_commit" /\ OwnCurrent(r)) => Answers(r, 200)

C26_SomeAdminStaysActive ==
    users # <<>> => \E i \in Admins : users[i].is_active

\* C27: after any signups, logins and changes of email, get_current_user with
\* a token that a login handed to account A either rejects the token or
\* returns A, never another account.
C27_TokenAuthenticatesItsAccount ==
    \A m \in minted_for :
        get_current_user(m.token, now).status = 200
        => get_current_user(m.token, now).user = m.user

\* C28: a logout with token T adds a revocation entry for the string T and for
\* nothing else, and every other signed token authenticates after it exactly
\* as before; refresh never answers that a token is revoked, and the access
\* token a successful refresh hands out authenticates.
C28_LogoutRevokesOnlyThatToken ==
    [][/\ last'.op = "logout"
            => /\ \A e \in blacklist' \ blacklist : e.token = last'.token
               /\ \A token \in issued \ {last'.token} :
                    get_current_user(token, now)' = get_current_user(token, now)
       /\ last'.op = "refresh" => last'.detail # REVOKED
       /\ (last'.op = "refresh" /\ last'.status = 200)
            => \A token \in last'.minted : get_current_user(token, now)'.status = 200]_vars

\* C29: login looks at the password before the active flag: a login to a
\* deactivated account with a wrong password is answered 401 "Incorrect
\* username or password", and 403 "User account is deactivated" is answered
\* only to a login that gave the account's password.
PasswordOf(email, password) ==
    \E i \in Ids(users) :
        users[i].email = email /\ users[i].hashed_password = <<"bcrypt", password>>

C29_PasswordBeforeActiveFlag ==
    last.op = "login"
    => /\ (last.status = 403 \/ last.detail = DEACTIVATED)
            => PasswordOf(last.name, last.password)
       /\ (/\ \E i \in Ids(users) : users[i].email = last.name /\ ~users[i].is_active
           /\ ~PasswordOf(last.name, last.password))
            => last.status = 401 /\ last.detail = INCORRECT /\ last.minted = {}

C29_WrongPasswordForBannedAccount ==
    /\ last.op = "login"
    /\ last.status = 401
    /\ last.name = "e2"
    /\ last.password = "p1"
    /\ Len(users) = 2
    /\ ~users[2].is_active

\* C30: no step changes the place, the role or the password hash of an
\* existing account.  A row changes only in a step of update_my_profile, which
\* changes the caller's own row and leaves its active flag alone, or in a step
\* of ban or unban, which changes the row of the named account and leaves its
\* username and email alone.  The accounts of role admin are those that were
\* created as admin.
RowChange(i) ==
    \/ /\ last'.op = "update_my_profile"
       /\ i = AccountOf(last'.token)
       /\ users'[i].is_active = users[i].is_active
    \/ /\ last'.op \in {"ban_user", "unban_user"}
       /\ users[i].username = last'.name
       /\ users'[i].username = users[i].username
       /\ users'[i].email = users[i].email

C30_IdRoleAndPasswordAreFixed ==
    [][/\ Len(users') >= Len(users)
       /\ \A i \in Ids(users) :
            /\ users'[i].role = users[i].role
            /\ users'[i].hashed_password = users[i].hashed_password
            /\ users'[i] # users[i] => RowChange(i)
       /\ {i \in Ids(users') : users'[i].role = "admin"} \cap Ids(users) = Admins]_vars

C30_RenamedAndBanned ==
    /\ Len(users) = 2
    /\ users[2].username = "n3"
    /\ users[2].email = "e3"
    /\ ~users[2].is_active
    /\ users[2].role = "user"
    /\ users[2].hashed_password = get_password_hash("p2")
    /\ users[1].is_active

====
